---- MODULE Spec2Model ----
(***************************************************************************)
(* VHS2MP4: the background job subsystem (job store, executor, soft        *)
(* cancel, stale sweep) as a state machine.                                *)
(*                                                                         *)
(* Threads: one foreground request context (fg) and the threads of the     *)
(* ThreadPoolExecutor(max_workers=1).  A step is one operation another     *)
(* thread can observe: a committed statement of update_job, a commit or    *)
(* rollback of a worker connection, a read of the jobs table.  Steps local *)
(* to a thread are part of the observable step that follows them.          *)
(*                                                                         *)
(* The SQLite write lock is a variable.  update_job always writes through  *)
(* a connection of its own, so its statement fails with "database is       *)
(* locked" while any other connection has an open write transaction.       *)
(*                                                                         *)
(* Time: utcnow() is read by update_job when it is given a status and by   *)
(* the stale sweep.  The code only compares a stored stamp with '', so a   *)
(* reading is kept symbolic: each status written has a reading of its own. *)
(*                                                                         *)
(* The retry loop of update_job (max_retries = 50 attempts, 0.1 s apart)   *)
(* is kept as "first attempt" and "retrying": a retrying call on a         *)
(* database that is still locked either stays retrying or has used up its  *)
(* attempts and raises.                                                    *)
(***************************************************************************)
EXTENDS Integers, Sequences, FiniteSets, TLC

\* ---------------------------------------------------------------- bounds
\* jobs started in one run of the model
MaxJobs == 2
\* foreground requests other than job starts (cancel, activate, a
\* synchronous pipeline) in one run of the model
MaxRequests == 2

\* highest counter of a numbered name a directory starts out with
MaxCounter == 10
\* files a directory holds at most
MaxFiles == 12

\* calls of ingest_inbox_file in one run of the model
MaxIngests == 2

\* process-media, accept, ignore and export requests in one run of the model
MaxOps == 3
\* segments a tape holds at most
MaxSegs == 4

\* ------------------------------------------------------ program constants
\* Faulty variant of max_workers, for the sensitivity run of C9: a pool of
\* two threads.
two_workers == 1 + 1

\* _executor = ThreadPoolExecutor(max_workers=1)
max_workers == 1

Threads == 1..max_workers

\* '' in a TEXT column
Empty == ""

Terminal == {"success", "failed", "canceled", "stale"}

Statuses == {"queued", "running"} \cup Terminal

\* datetime.utcnow().isoformat(timespec="seconds") + "Z", as read by the call
\* that writes `status`
Now(status) == "utc@" \o status

\* mark_stale_jobs_on_startup's error text
StaleText == "Job marked stale after server restart."

\* What a callable handed to enqueue_job can be.  "run_job" is a closure of
\* app.py, def run_job(conn, progress).  The others are callables of one
\* parameter, the calling convention of _run_job (job_callable(conn)), each
\* given by the operations its body performs: progress reports through
\* job_progress, write statements on the connection it was handed, and its
\* return value or exception.
Report(p, s, d) == [op |-> "progress", percent |-> p, step |-> s, detail |-> d]

Write == [op |-> "write"]

Return(v) == [op |-> "return", value |-> v]

Raise(m) == [op |-> "raise", msg |-> m]

Body(kind) ==
    CASE kind = "pipeline" ->
           << Report(50, "Copy files", "copying"), Write, Return("dict_summary") >>
      [] kind = "reporter" ->
           << Report(-5, "Validate", "checking"), Report(150, "Done", "complete"),
              Return("not_a_dict") >>
      [] kind = "failing" ->
           << Write, Raise("") >>
      [] kind = "process_media" ->
           << Report(10, "Validate raw exists", "checking"),
              Report(25, "Read metadata", "Inspecting video file"),
              Report(45, "Generate thumbnail", "Creating preview image"),
              Write, Write,
              Report(70, "Scene detect", "Analyzing scene changes"),
              Report(90, "Store suggestions + review item", "Saving results"),
              Write,
              Report(100, "Done", "Processing complete"),
              Return("dict_summary") >>
      [] kind = "export_segments" ->
           << Report(10, "Validate segments", "Found 1 segments"),
              Report(20, "Prepare output directory", "output_dir"),
              Report(20, "Export segments", "Segment 1 of 1"),
              Write, Write,
              Report(100, "Done", "Export complete"),
              Return("dict_summary") >>
      [] OTHER -> << >>

CallableKinds == {"run_job", "pipeline", "reporter", "failing"}

\* _process_media_for_tape and _export_segments_for_tape (of a tape with one
\* segment) as work functions: called with the worker's connection and with
\* job_progress of their job as `progress`
PipelineKinds == {"process_media", "export_segments"}

VARIABLES
    jobs,       \* the jobs table: a sequence of rows, id = index
    queue,      \* the executor's FIFO work queue: <<[job, kind]>>
    workers,    \* per executor thread, its frame in _run_job
    fg,         \* the foreground request in progress
    lock,       \* holder of the SQLite write lock
    committed,  \* committed write statements of work functions, per job
    requests,   \* foreground requests made so far (job starts not counted)
    directory,  \* resolve_conflict_path: the names that exist in the directory
    filename,   \* resolve_conflict_path: the file name asked for
    candidate,  \* resolve_conflict_path: the name returned, << >> before a call
    tapes,      \* the committed rows of the tapes table, id = index
    review_items, \* the committed rows of the review_items table, id = index
    raw_dir,    \* the files of 01_raw: name -> content
    callers,    \* per ingesting thread, its frame in ingest_inbox_file
    ingests,    \* calls of ingest_inbox_file made so far
    segments,   \* the committed rows of the segments table, per tape, in
                \* the order of start_seconds
    suggestions, \* the committed rows of segment_suggestions, per tape, id = index
    outputs,    \* segment files on disk: <<tape, index>> -> times written
    clips,      \* runs of the clip tool so far
    runners,    \* per request thread, its frame in a media handler
    ops,        \* media requests made so far
    scene,      \* one call of suggest_scene_segments: its inputs and result
    retry,      \* one call of update_job: its frame in the retry loop
    batch,      \* one ingest request: its handler, the inbox, its loop
    shelf       \* one tape's segments with their ranges, and the clips on disk

\* the variables of the job subsystem
jobVars == <<jobs, queue, workers, fg, lock, committed, requests>>

\* the variables of resolve_conflict_path on its own
placeVars == <<directory, filename, candidate>>

\* the variables of the ingest pipeline
ingestVars == <<tapes, review_items, raw_dir, callers, ingests>>

\* the variables of the media handlers (with review_items and lock)
exportVars == <<segments, suggestions, outputs, clips, runners, ops>>

\* the variables of the functions modelled on their own
auxVars == <<scene, retry, batch, shelf>>

\* the variables the job subsystem leaves alone
others == <<placeVars, ingestVars, exportVars, auxVars>>

vars == <<jobVars, others>>

\* no placement under way
PlaceIdle ==
    /\ directory = {}
    /\ filename = << >>
    /\ candidate = << >>

\* threads that run ingest_inbox_file: request threads of the development
\* server (app.run serves each request on a thread of its own)
Callers == 1..2

\* the value of `result` before ingest_inbox_file returned
NoResult ==
    [status |-> "none", message |-> Empty, tape_id |-> 0, backup_status |-> Empty]

IdleCaller ==
    [ pc |-> "idle", file |-> << >>, attach_to |-> 0, raw_destination |-> << >>,
      tape_id |-> 0, success |-> FALSE, error |-> Empty, result |-> NoResult,
      item |-> 0 ]

\* an empty project: no tapes, no review items, no raw files
IngestIdle ==
    /\ tapes = << >>
    /\ review_items = << >>
    /\ raw_dir = << >>
    /\ callers = [c \in Callers |-> IdleCaller]
    /\ ingests = 0

\* the tapes of the media handlers
Tapes == 1..2

\* the segment files a tape can have: segment_001.mp4, segment_002.mp4, ...
Files == Tapes \X (1..MaxSegs)

\* a row of segments that was never exported
NewSegment == [export_status |-> "not_exported", output_path |-> "NULL"]

IdleRunner ==
    [ pc |-> "idle", tape |-> 0, force |-> FALSE, index |-> 0, rows |-> << >>,
      exported_count |-> 0, skipped_count |-> 0, failures |-> << >> ]

\* no media handler at work, no segments
ExportIdle ==
    /\ segments = [t \in Tapes |-> << >>]
    /\ suggestions = [t \in Tapes |-> << >>]
    /\ outputs = [f \in Files |-> 0]
    /\ clips = 0
    /\ runners = [r \in Callers |-> IdleRunner]
    /\ ops = 0

\* no scene detection asked for
IdleScene ==
    [tool |-> "ok", duration |-> 0, cut_points |-> {}, returned |-> FALSE,
     suggested |-> << >>]

\* update_job not called
IdleRetry ==
    [pc |-> "idle", kw |-> << >>, attempt |-> 0, met |-> Empty, commits |-> 0,
     exception |-> Empty, before |-> << >>]

\* no ingest request
IdleBatch ==
    [handler |-> "none", files |-> << >>, pc |-> "idle", index |-> 0,
     ingested |-> 0, skipped |-> 0, calls |-> 0]

\* segments of the tape whose clips are followed by range
MaxShelf == 3

\* export runs on that tape
MaxRuns == 3

\* a tape without segments and without clips; no export is running
IdleShelf ==
    [ segments |-> << >>, files |-> [i \in 1..MaxShelf |-> -1],
      pc |-> "idle", force |-> FALSE, index |-> 0, runs |-> 0 ]

AuxIdle ==
    /\ scene = IdleScene
    /\ retry = IdleRetry
    /\ shelf = IdleShelf
    /\ batch = IdleBatch
    /\ shelf = IdleShelf
    /\ shelf = IdleShelf

OthersIdle == PlaceIdle /\ IngestIdle /\ ExportIdle /\ AuxIdle

\* ---------------------------------------------------------------- helpers
Max(a, b) == IF a >= b THEN a ELSE b

Min(a, b) == IF a <= b THEN a ELSE b

\* Faulty variant of Clamp, for the sensitivity run of C3: no clamping.
ClampNone(p) == p

\* max(0, min(100, int(percent)))
Clamp(p) == Max(0, Min(100, p))

\* Faulty variant of StampOnce, for the sensitivity run of C2: col = ?.
StampAlways(old, now) == now

\* CASE WHEN col = '' THEN ? ELSE col END
StampOnce(old, now) == IF old = Empty THEN now ELSE old

\* isinstance(result, dict)
IsDict(v) == v \in {"dict_empty", "dict_summary"}

\* json.dumps(result)
json_dumps(v) ==
    IF v = "dict_empty" THEN "{}" ELSE "{\"redirect_url\": \"/tapes/1\"}"

\* f"{exc}\n{traceback.format_exc(limit=5)}"
ErrorText(msg) == msg \o "\nTraceback (most recent call last):"

\* the row create_job inserts (columns update_job never writes are left out)
NewJobRow ==
    [ status |-> "queued", percent |-> 0, current_step |-> Empty, detail |-> Empty,
      result_json |-> Empty, error_text |-> Empty,
      started_at |-> Empty, finished_at |-> Empty ]

\* The SET clause update_job builds from the keyword arguments it was given
\* (kw holds the supplied ones only), applied to a row.
SetPercent(row, kw) ==
    IF "percent" \in DOMAIN kw
    THEN [row EXCEPT !.percent = Clamp(kw.percent)] ELSE row

SetStep(row, kw) ==
    IF "step" \in DOMAIN kw THEN [row EXCEPT !.current_step = kw.step] ELSE row

SetDetail(row, kw) ==
    IF "detail" \in DOMAIN kw THEN [row EXCEPT !.detail = kw.detail] ELSE row

SetStatus(row, kw) ==
    IF "status" \in DOMAIN kw
    THEN [row EXCEPT
            !.status = kw.status,
            !.started_at =
                IF kw.status = "running" THEN StampOnce(@, Now(kw.status)) ELSE @,
            !.finished_at =
                IF kw.status \in Terminal THEN StampOnce(@, Now(kw.status)) ELSE @]
    ELSE row

SetResult(row, kw) ==
    IF "result" \in DOMAIN kw
    THEN [row EXCEPT !.result_json = json_dumps(kw.result)] ELSE row

SetError(row, kw) ==
    IF "error" \in DOMAIN kw THEN [row EXCEPT !.error_text = kw.error] ELSE row

update_job_row(row, kw) ==
    SetError(SetResult(SetStatus(SetDetail(SetStep(SetPercent(row, kw), kw), kw),
                                 kw), kw), kw)

\* UPDATE jobs SET ... WHERE id = ?  (no row with that id: nothing changes)
UpdateJobs(js, id, kw) ==
    IF id \in DOMAIN js
    THEN [js EXCEPT ![id] = update_job_row(js[id], kw)] ELSE js

\* the SQLite write lock: free, or held by the open write transaction of the
\* foreground connection or of the connection of executor thread w
Unlocked == [by |-> "none", thread |-> 0]

FgLock == [by |-> "fg", thread |-> 0]

WorkerLock(w) == [by |-> "worker", thread |-> w]

\* update_job's statement on its own connection meets a write lock
DatabaseLocked == lock # Unlocked

\* Faulty variant of StaleRow, for the sensitivity run of C4: the UPDATE
\* without its WHERE status = 'running'.
StaleRowAll(row) ==
    [row EXCEPT
        !.status = "stale",
        !.error_text = IF @ = Empty THEN StaleText ELSE @,
        !.finished_at = StampOnce(@, Now("stale"))]

\* the row mark_stale_jobs_on_startup leaves for a row
StaleRow(row) ==
    IF row.status = "running"
    THEN [row EXCEPT
            !.status = "stale",
            !.error_text = IF @ = Empty THEN StaleText ELSE @,
            !.finished_at = StampOnce(@, Now("stale"))]
    ELSE row

\* a thread of the executor between two _run_job calls
IdleWorker ==
    [ pc |-> "idle", job |-> 0, kind |-> "run_job", ip |-> 0,
      retrying |-> FALSE, pending |-> 0, error |-> Empty ]

IdleFg == [ pc |-> "idle", job |-> 0, retrying |-> FALSE ]

\* ------------------------------------------------------------------- Init
Init ==
    /\ jobs = << >>
    /\ queue = << >>
    /\ workers = [w \in Threads |-> IdleWorker]
    /\ fg = IdleFg
    /\ lock = Unlocked
    /\ committed = [j \in 1..MaxJobs |-> 0]
    /\ requests = 0
    /\ OthersIdle

\* ------------------------------------------------------ foreground actions

\* A *_start handler: create_job (INSERT ... 'queued', 0; commit), then
\* enqueue_job submits the closure.  The INSERT needs the write lock.
StartJob(kind) ==
    /\ fg.pc = "idle"
    /\ Len(jobs) < MaxJobs
    /\ ~DatabaseLocked
    /\ jobs' = Append(jobs, NewJobRow)
    /\ queue' = Append(queue, [job |-> Len(jobs) + 1, kind |-> kind])
    /\ UNCHANGED <<workers, fg, lock, committed, requests>>
    /\ UNCHANGED others

\* job_cancel, first half: get_job and the test of its status; for a status
\* other than queued and running the handler is through.
CancelRead(j) ==
    /\ fg.pc = "idle"
    /\ requests < MaxRequests
    /\ j \in DOMAIN jobs
    /\ requests' = requests + 1
    /\ fg' = IF jobs[j].status \in {"queued", "running"}
             THEN [IdleFg EXCEPT !.pc = "cancel_write", !.job = j]
             ELSE IdleFg
    /\ UNCHANGED <<jobs, queue, workers, lock, committed>>
    /\ UNCHANGED others

CancelKw == [status |-> "canceled", step |-> "Canceled", detail |-> "Canceled by user."]

\* job_cancel, second half: update_job(status="canceled", step="Canceled",
\* detail="Canceled by user.").  On a locked database it retries; when its
\* attempts are used up it raises and the request ends with the row as it was.
CancelWrite ==
    /\ fg.pc = "cancel_write"
    /\ IF ~DatabaseLocked
       THEN /\ jobs' = UpdateJobs(jobs, fg.job, CancelKw)
            /\ fg' = IdleFg
       ELSE /\ fg' = IF fg.retrying THEN IdleFg ELSE [fg EXCEPT !.retrying = TRUE]
            /\ UNCHANGED jobs
    /\ UNCHANGED <<queue, workers, lock, committed, requests>>
    /\ UNCHANGED others

\* activate_project (also create_project and create_app): init_project_db ends
\* with mark_stale_jobs_on_startup, one UPDATE and its commit.
StaleSweep ==
    /\ fg.pc = "idle"
    /\ requests < MaxRequests
    /\ ~DatabaseLocked
    /\ requests' = requests + 1
    /\ jobs' = [j \in DOMAIN jobs |-> StaleRow(jobs[j])]
    /\ UNCHANGED <<queue, workers, fg, lock, committed>>
    /\ UNCHANGED others

\* A synchronous pipeline handler (export_segments) issues its first write on
\* its connection and so takes the write lock ...
FgBeginWrite ==
    /\ fg.pc = "idle"
    /\ requests < MaxRequests
    /\ lock = Unlocked
    /\ requests' = requests + 1
    /\ fg' = [IdleFg EXCEPT !.pc = "in_txn"]
    /\ lock' = FgLock
    /\ UNCHANGED <<jobs, queue, workers, committed>>
    /\ UNCHANGED others

\* ... and commits when its pipeline is through.
FgCommit ==
    /\ fg.pc = "in_txn"
    /\ fg' = IdleFg
    /\ lock' = Unlocked
    /\ UNCHANGED <<jobs, queue, workers, committed, requests>>
    /\ UNCHANGED others

\* ---------------------------------------------------------- worker actions

LockedMessage == "Database is locked after retries while updating job progress. Database busy, retrying..."

\* except Exception as exc: conn.rollback(); error_text = f"{exc}\n{traceback}";
\* the frame then stands before update_job(status="failed", error=error_text).
Raised(f, msg) ==
    [f EXCEPT !.pc = "mark_failed", !.retrying = FALSE, !.pending = 0,
              !.error = ErrorText(msg)]

\* the write lock after thread w's connection committed or rolled back
Released(w) == IF lock = WorkerLock(w) THEN Unlocked ELSE lock

\* One attempt of an update_job call of thread w with keyword arguments kw.
\* The statement commits and the thread goes on in frame `ok`; or the
\* database is locked and the thread sleeps and tries again; or its attempts
\* are used up, update_job raises RuntimeError and the thread goes on in
\* frame `failed`, its connection rolled back when `caught` (the exception
\* is caught by the except clause of _run_job).
WorkerUpdate(w, kw, ok, failed, caught) ==
    /\ IF ~DatabaseLocked
       THEN /\ jobs' = UpdateJobs(jobs, workers[w].job, kw)
            /\ workers' = [workers EXCEPT ![w] = ok]
            /\ UNCHANGED lock
       ELSE /\ UNCHANGED jobs
            /\ IF workers[w].retrying
               THEN /\ workers' = [workers EXCEPT ![w] = failed]
                    /\ lock' = IF caught THEN Released(w) ELSE lock
               ELSE /\ workers' = [workers EXCEPT ![w].retrying = TRUE]
                    /\ UNCHANGED lock
    /\ UNCHANGED <<queue, fg, committed, requests>>

\* An idle executor thread takes the next _run_job and opens its connection.
WorkerTake(w) ==
    /\ workers[w].pc = "idle"
    /\ queue # << >>
    /\ workers' = [workers EXCEPT ![w] =
                      [IdleWorker EXCEPT !.pc = "mark_running",
                          !.job = Head(queue).job, !.kind = Head(queue).kind]]
    /\ queue' = Tail(queue)
    /\ UNCHANGED <<jobs, fg, lock, committed, requests>>
    /\ UNCHANGED others

\* update_job(job_id, status="running")
MarkRunning(w) ==
    /\ workers[w].pc = "mark_running"
    /\ WorkerUpdate(w, [status |-> "running"],
                    [workers[w] EXCEPT !.pc = "call", !.retrying = FALSE],
                    Raised(workers[w], LockedMessage), TRUE)
    /\ UNCHANGED others

\* result = job_callable(conn) with a run_job(conn, progress) closure of
\* app.py: one argument short, TypeError before its body runs; the except
\* clause rolls back (nothing is pending).
CallMessage == "run_job() missing 1 required positional argument: 'progress'"

CallRunJob(w) ==
    /\ workers[w].pc = "call"
    /\ workers[w].kind = "run_job"
    /\ workers' = [workers EXCEPT ![w] = Raised(@, CallMessage)]
    /\ UNCHANGED <<jobs, queue, fg, lock, committed, requests>>
    /\ UNCHANGED others

\* Faulty variant of CallWorkFn, for the sensitivity run of C11: a worker
\* that looks at the job row and does not call the work function of a job
\* shown as canceled.
CallWorkFnUnlessCanceled(w) ==
    /\ workers[w].pc = "call"
    /\ workers[w].kind # "run_job"
    /\ jobs[workers[w].job].status # "canceled"
    /\ workers' = [workers EXCEPT ![w].pc = "in_work", ![w].ip = 1]
    /\ UNCHANGED <<jobs, queue, fg, lock, committed, requests>>
    /\ UNCHANGED others

\* result = job_callable(conn) with a callable of one parameter: its body runs.
CallWorkFn(w) ==
    /\ workers[w].pc = "call"
    /\ workers[w].kind # "run_job"
    /\ workers' = [workers EXCEPT ![w].pc = "in_work", ![w].ip = 1]
    /\ UNCHANGED <<jobs, queue, fg, lock, committed, requests>>
    /\ UNCHANGED others

\* the operation the work function of thread w is at
Op(w) == Body(workers[w].kind)[workers[w].ip]

\* The work function executes a write statement on the worker connection and
\* so opens (or continues) its transaction; on a database locked by another
\* connection the statement raises, and the except clause rolls back.
WorkWrite(w) ==
    /\ workers[w].pc = "in_work"
    /\ Op(w).op = "write"
    /\ IF lock \in {Unlocked, WorkerLock(w)}
       THEN /\ workers' = [workers EXCEPT ![w].ip = @ + 1, ![w].pending = @ + 1]
            /\ lock' = WorkerLock(w)
       ELSE /\ workers' = [workers EXCEPT ![w] = Raised(@, "database is locked")]
            /\ UNCHANGED lock
    /\ UNCHANGED <<jobs, queue, fg, committed, requests>>
    /\ UNCHANGED others

\* The work function reports progress: job_progress(job_id, percent, step,
\* detail), i.e. update_job(job_id, percent=, step=, detail=).
ProgressKw(o) == [percent |-> o.percent, step |-> o.step, detail |-> o.detail]

WorkProgress(w) ==
    /\ workers[w].pc = "in_work"
    /\ Op(w).op = "progress"
    /\ WorkerUpdate(w, ProgressKw(Op(w)),
                    [workers[w] EXCEPT !.ip = @ + 1, !.retrying = FALSE],
                    Raised(workers[w], LockedMessage), TRUE)
    /\ UNCHANGED others

\* The work function returns; conn.commit().
WorkReturn(w) ==
    /\ workers[w].pc = "in_work"
    /\ Op(w).op = "return"
    /\ workers' = [workers EXCEPT ![w].pc = "mark_success", ![w].pending = 0]
    /\ committed' = [committed EXCEPT ![workers[w].job] = @ + workers[w].pending]
    /\ lock' = Released(w)
    /\ UNCHANGED <<jobs, queue, fg, requests>>
    /\ UNCHANGED others

\* The work function raises; the except clause rolls back.
WorkRaise(w) ==
    /\ workers[w].pc = "in_work"
    /\ Op(w).op = "raise"
    /\ workers' = [workers EXCEPT ![w] = Raised(@, Op(w).msg)]
    /\ lock' = Released(w)
    /\ UNCHANGED <<jobs, queue, fg, committed, requests>>
    /\ UNCHANGED others

\* update_job(job_id, status="success", percent=100,
\*            result=result if isinstance(result, dict) else {})
SuccessKw(ret) ==
    [status |-> "success", percent |-> 100,
     result |-> IF IsDict(ret) THEN ret ELSE "dict_empty"]

MarkSuccess(w) ==
    /\ workers[w].pc = "mark_success"
    /\ WorkerUpdate(w, SuccessKw(Op(w).value), IdleWorker,
                    Raised(workers[w], LockedMessage), TRUE)
    /\ UNCHANGED others

\* update_job(job_id, status="failed", error=error_text); a RuntimeError here
\* leaves _run_job (finally: conn.close()) with the job row as it was.
FailedKw(error) == [status |-> "failed", error |-> error]

MarkFailed(w) ==
    /\ workers[w].pc = "mark_failed"
    /\ WorkerUpdate(w, FailedKw(workers[w].error), IdleWorker, IdleWorker, FALSE)
    /\ UNCHANGED others

\* ------------------------------------------------------------------- Next
WorkerStep(w) ==
    \/ WorkerTake(w)
    \/ MarkRunning(w)
    \/ CallRunJob(w)
    \/ CallWorkFn(w)
    \/ WorkWrite(w)
    \/ WorkProgress(w)
    \/ WorkReturn(w)
    \/ WorkRaise(w)
    \/ MarkSuccess(w)
    \/ MarkFailed(w)

Next ==
    \/ \E k \in CallableKinds : StartJob(k)
    \/ \E j \in 1..MaxJobs : CancelRead(j)
    \/ CancelWrite
    \/ StaleSweep
    \/ FgBeginWrite
    \/ FgCommit
    \/ \E w \in Threads : WorkerStep(w)

Spec == Init /\ [][Next]_vars

\* The process keeps running: an executor thread that has a step to take
\* takes it, and a foreground handler that has begun runs to its end.
Fairness ==
    /\ \A w \in Threads : WF_vars(WorkerStep(w))
    /\ WF_vars(CancelWrite)
    /\ WF_vars(FgCommit)

SpecFair == Spec /\ Fairness

\* -------------------------------------------------------- process restart
\* The process stops, at any point, and is started again.  The executor's
\* queue, its threads and the open transactions are gone with the process;
\* the jobs table is what was committed.  create_app then calls
\* init_project_db(active_project), which ends with
\* mark_stale_jobs_on_startup.  Nothing reads the jobs table to enqueue
\* anything.
Restart ==
    /\ requests < MaxRequests
    /\ requests' = requests + 1
    /\ queue' = << >>
    /\ workers' = [w \in Threads |-> IdleWorker]
    /\ fg' = IdleFg
    /\ lock' = Unlocked
    /\ jobs' = [j \in DOMAIN jobs |-> StaleRow(jobs[j])]
    /\ UNCHANGED committed
    /\ UNCHANGED others

\* jobs are started and run, and the process is restarted
NextRestart ==
    \/ \E k \in CallableKinds : StartJob(k)
    \/ \E w \in Threads : WorkerStep(w)
    \/ Restart

SpecRestart == Init /\ [][NextRestart]_vars /\ \A w \in Threads : WF_vars(WorkerStep(w))

\* ------------------------------------------------------ pipelines as jobs
\* jobs of every kind are started and run; nothing else uses the database
NextPipelines ==
    \/ \E k \in CallableKinds \cup PipelineKinds : StartJob(k)
    \/ \E w \in Threads : WorkerStep(w)

SpecPipelines == Init /\ [][NextPipelines]_vars

\* ---------------------------------------------------- the sweep on its own
\* mark_stale_jobs_on_startup is one UPDATE over whatever the jobs table of
\* the project file holds when init_project_db runs.  Rows the table can
\* hold, by the columns the UPDATE reads or writes:
StoredRows ==
    { [NewJobRow EXCEPT !.status = s, !.error_text = e, !.finished_at = f] :
        s \in Statuses, e \in {Empty, "boom"}, f \in {Empty, Now("failed")} }

InitSweep ==
    /\ jobs \in UNION { [1..n -> StoredRows] : n \in 0..MaxJobs }
    /\ queue = << >>
    /\ workers = [w \in Threads |-> IdleWorker]
    /\ fg = IdleFg
    /\ lock = Unlocked
    /\ committed = [j \in 1..MaxJobs |-> 0]
    /\ requests = 0
    /\ OthersIdle

SpecSweep == InitSweep /\ [][StaleSweep]_vars

\* ------------------------------------------- resolve_conflict_path alone
\* A file name is the sequence of its characters.
clip_mp4 == <<"c", "l", "i", "p", ".", "m", "p", "4">>

clip_1_mp4 == <<"c", "l", "i", "p", "_", "1", ".", "m", "p", "4">>

clip_2_mp4 == <<"c", "l", "i", "p", "_", "2", ".", "m", "p", "4">>

clip_3_mp4 == <<"c", "l", "i", "p", "_", "3", ".", "m", "p", "4">>

\* file names asked for: with a suffix, numbered already, without a suffix,
\* with a leading dot only, with two dots
Filenames ==
    { clip_mp4, clip_1_mp4, <<"c", "l", "i", "p">>, <<".", "m", "p", "4">>,
      <<"a", ".", "b", ".", "c">> }

Digit(d) == <<"0", "1", "2", "3", "4", "5", "6", "7", "8", "9">>[d + 1]

\* f"{counter}": the decimal digits of a counter >= 0
RECURSIVE str(_)
str(n) == IF n < 10 THEN <<Digit(n)>> ELSE str(n \div 10) \o <<Digit(n % 10)>>

\* name.rfind("."), counted from 1; 0 when there is no dot
rfind_dot(name) ==
    LET dots == {i \in 1..Len(name) : name[i] = "."}
    IN IF dots = {} THEN 0 ELSE CHOOSE i \in dots : \A k \in dots : k <= i

\* a name has a suffix when its last dot is neither first nor last
HasSuffix(name) == 1 < rfind_dot(name) /\ rfind_dot(name) < Len(name)

\* candidate.suffix
suffix(name) ==
    IF HasSuffix(name) THEN SubSeq(name, rfind_dot(name), Len(name)) ELSE << >>

\* candidate.stem
stem(name) ==
    IF HasSuffix(name) THEN SubSeq(name, 1, rfind_dot(name) - 1) ELSE name

\* f"{stem}_{counter}{suffix}"
next_name(st, counter, suf) == st \o <<"_">> \o str(counter) \o suf

\* while True: ... if not candidate.exists(): return candidate; counter += 1
RECURSIVE Probe(_, _, _, _)
Probe(dir, st, suf, counter) ==
    IF next_name(st, counter, suf) \notin dir
    THEN next_name(st, counter, suf)
    ELSE Probe(dir, st, suf, counter + 1)

\* Faulty variant of resolve_conflict_path, for the sensitivity run of C15:
\* the loop counts from the number of files in the directory instead of 1.
resolve_by_count(dir, name) ==
    IF name \notin dir THEN name
    ELSE Probe(dir, stem(name), suffix(name), Cardinality(dir))

resolve_conflict_path(dir, name) ==
    IF name \notin dir THEN name
    ELSE Probe(dir, stem(name), suffix(name), 1)

\* the names a directory starts out with, for a file name asked for: the
\* name itself, names numbered from it, and a file of somebody else
Universe(name) ==
    {name, <<"x">>} \cup
    {next_name(stem(name), k, suffix(name)) : k \in 1..MaxCounter}

JobsIdle ==
    /\ jobs = << >>
    /\ queue = << >>
    /\ workers = [w \in Threads |-> IdleWorker]
    /\ fg = IdleFg
    /\ lock = Unlocked
    /\ committed = [j \in 1..MaxJobs |-> 0]
    /\ requests = 0

InitPlace ==
    /\ JobsIdle
    /\ filename \in Filenames
    /\ directory \in SUBSET Universe(filename)
    /\ candidate = << >>
    /\ IngestIdle
    /\ ExportIdle
    /\ AuxIdle

\* raw_destination = resolve_conflict_path(paths["raw_dir"], inbox_path.name)
Resolve ==
    /\ candidate = << >>
    /\ candidate' = resolve_conflict_path(directory, filename)
    /\ UNCHANGED <<jobVars, auxVars, ingestVars, exportVars, directory, filename>>

\* shutil.copy2(inbox_path, raw_destination)
Copy ==
    /\ candidate # << >>
    /\ Cardinality(directory) < MaxFiles
    /\ directory' = directory \cup {candidate}
    /\ candidate' = << >>
    /\ UNCHANGED <<jobVars, auxVars, ingestVars, exportVars, filename>>

NextPlace == Resolve \/ Copy

SpecPlace == InitPlace /\ [][NextPlace]_vars

\* ---------------------------------------------------- the ingest pipeline
\* Threads that call ingest_inbox_file, each on a connection of its own,
\* and a request thread that holds a write transaction open over its media
\* work (FgBeginWrite, FgCommit).  A transaction of ingest_inbox_file is a
\* few statements with no file work in between, so it is one step: another
\* connection sees nothing of it before its commit, and waits for it within
\* busy_timeout.  A statement that meets the long transaction either waits
\* or, after busy_timeout, raises "database is locked".

\* the inbox: name -> content; two names hold the same content, one is no MP4,
\* one MP4 holds a content of its own
Inbox ==
    (clip_mp4 :> "X") @@ (<<"b", ".", "m", "p", "4">> :> "X") @@
    (<<"c", ".", "m", "p", "4">> :> "Y") @@ (<<"x">> :> "Z")

\* name asked for that is not in the inbox
missing_mp4 == <<"m", ".", "m", "p", "4">>

\* the names the ingests of the pipeline on its own are asked for
IngestNames == {clip_mp4, <<"b", ".", "m", "p", "4">>, <<"x">>, missing_mp4}

\* path.suffix.lower() == ".mp4"
is_mp4(name) == suffix(name) = <<".", "m", "p", "4">>

\* the content shutil.copy2 leaves at dest: the source's, or a damaged copy
Copies(content, dest) ==
    { [data |-> content, damaged_at |-> << >>],
      [data |-> content, damaged_at |-> dest] }

\* compute_sha256 of the inbox file
source_hash(name) == [sha256 |-> [data |-> Inbox[name], damaged_at |-> << >>]]

\* compute_sha256 of a file of 01_raw
compute_sha256(content) == [sha256 |-> content]

\* SELECT id FROM tapes WHERE sha256 = ?
Existing(hash) == {t \in DOMAIN tapes : tapes[t].sha256 = hash}

\* fetchone(): the row of the lowest id
FirstOf(ids) == CHOOSE t \in ids : \A u \in ids : t <= u

ErrorResult(message) == [NoResult EXCEPT !.status = "error", !.message = message]

\* Faulty variant of RaisedResult, for the sensitivity run of C23: the
\* exception is turned into an error result.
raised_as_error == [NoResult EXCEPT !.status = "error", !.message = "Copy failed"]

\* an exception left ingest_inbox_file: there is no result
RaisedResult == [NoResult EXCEPT !.status = "raised"]

Done(c, result) == [callers EXCEPT ![c] = [IdleCaller EXCEPT !.result = result]]

\* ingest_inbox_file up to resolve_conflict_path: the file must exist and be
\* an MP4; source_hash; the lookup by source_hash; with a tape_id (0: none
\* given), the tape must exist
IngestLookupFor(c, name, tape_id) ==
    /\ callers[c].pc = "idle"
    /\ ingests < MaxIngests
    /\ ingests' = ingests + 1
    /\ callers' =
          IF name \notin DOMAIN Inbox
          THEN Done(c, ErrorResult("File not found"))
          ELSE IF ~is_mp4(name)
          THEN Done(c, ErrorResult("Unsupported file type"))
          ELSE IF Existing(source_hash(name)) # {}
          THEN Done(c, [NoResult EXCEPT
                           !.status = "already_ingested",
                           !.message = "Already ingested",
                           !.tape_id = FirstOf(Existing(source_hash(name)))])
          ELSE IF tape_id # 0 /\ tape_id \notin DOMAIN tapes
          THEN Done(c, ErrorResult("Tape not found"))
          ELSE [callers EXCEPT ![c] = [IdleCaller EXCEPT !.pc = "resolve",
                                                         !.file = name,
                                                         !.attach_to = tape_id]]
    /\ UNCHANGED <<jobVars, auxVars, placeVars, exportVars, tapes, review_items, raw_dir>>

\* ingest_inbox_file called without a tape_id
IngestLookup(c, name) == IngestLookupFor(c, name, 0)

\* raw_destination = resolve_conflict_path(paths["raw_dir"], inbox_path.name)
IngestResolve(c) ==
    /\ callers[c].pc = "resolve"
    /\ callers' = [callers EXCEPT
          ![c].pc = "copy",
          ![c].raw_destination =
              resolve_conflict_path(DOMAIN raw_dir, callers[c].file)]
    /\ UNCHANGED <<jobVars, auxVars, placeVars, exportVars, tapes, review_items, raw_dir, ingests>>

\* shutil.copy2(inbox_path, raw_destination): OSError ends the ingest with
\* an error result; otherwise the file is at raw_destination
IngestCopy(c) ==
    /\ callers[c].pc = "copy"
    /\ \/ /\ callers' = Done(c, ErrorResult("Copy failed"))
          /\ UNCHANGED raw_dir
       \/ \E content \in Copies(Inbox[callers[c].file], callers[c].raw_destination) :
             /\ raw_dir' = [n \in DOMAIN raw_dir \cup {callers[c].raw_destination} |->
                               IF n = callers[c].raw_destination
                               THEN content ELSE raw_dir[n]]
             /\ callers' = [callers EXCEPT ![c].pc = "write_tape"]
    /\ UNCHANGED <<jobVars, auxVars, placeVars, exportVars, tapes, review_items, ingests>>

\* the row INSERT INTO tapes stores: source_label = inbox_path.name,
\* raw_path = str(raw_destination), sha256 = raw_hash, backup_status NULL
TapeRow(c) ==
    [ source_label |-> callers[c].file,
      raw_path |-> callers[c].raw_destination,
      sha256 |-> compute_sha256(raw_dir[callers[c].raw_destination]),
      status |-> "Ingested",
      backup_status |-> "NULL" ]

\* _create_review_item: status open
ReviewItem(type, tape_id, payload) ==
    [type |-> type, tape_id |-> tape_id, status |-> "open", payload |-> payload]

NoPayload == [attempted_path |-> Empty, error |-> Empty, raw_path |-> << >>]

\* UPDATE tapes SET raw_path, sha256, status = 'Ingested', backup_status =
\* NULL WHERE id = tape_id
Attached(c) ==
    [tapes EXCEPT ![callers[c].attach_to] =
        [TapeRow(c) EXCEPT !.source_label = tapes[callers[c].attach_to].source_label]]

\* raw_hash; with a tape_id the UPDATE of that tape, else INSERT INTO tapes
\* and the needs_metadata item; conn.commit()
IngestWriteTape(c) ==
    /\ callers[c].pc = "write_tape"
    /\ IF lock = Unlocked
       THEN IF callers[c].attach_to # 0
            THEN /\ tapes' = Attached(c)
                 /\ UNCHANGED review_items
                 /\ callers' = [callers EXCEPT ![c].pc = "backup",
                                               ![c].tape_id = callers[c].attach_to]
            ELSE /\ tapes' = Append(tapes, TapeRow(c))
                 /\ review_items' =
                       Append(review_items,
                              ReviewItem("needs_metadata", Len(tapes) + 1, NoPayload))
                 /\ callers' = [callers EXCEPT ![c].pc = "backup",
                                               ![c].tape_id = Len(tapes) + 1]
       ELSE /\ callers' = Done(c, RaisedResult)
            /\ UNCHANGED <<tapes, review_items>>
    /\ UNCHANGED <<jobVars, auxVars, placeVars, exportVars, raw_dir, ingests>>

\* what _attempt_nas_backup meets: the mount is not there, the directories
\* cannot be made, copy2 raises OSError, or the copy is made
BackupOutcomes ==
    { [success |-> FALSE, error |-> "NAS not available"],
      [success |-> FALSE, error |-> "NAS directories could not be created"],
      [success |-> FALSE, error |-> "[Errno 28] No space left on device"],
      [success |-> TRUE, error |-> Empty] }

\* success, nas_path, error = _attempt_nas_backup(project_slug, raw_destination)
IngestBackup(c) ==
    /\ callers[c].pc = "backup"
    /\ \E o \in BackupOutcomes :
          callers' = [callers EXCEPT ![c].pc = "record",
                                     ![c].success = o.success,
                                     ![c].error = o.error]
    /\ UNCHANGED <<jobVars, auxVars, placeVars, exportVars, tapes, review_items, raw_dir, ingests>>

\* Faulty variant of backup_status, for the sensitivity run of C17.
backup_status_always(success) == "backed_up"

\* backup_status = "backed_up"; if not success: backup_status = "needs_backup"
backup_status(success) == IF success THEN "backed_up" ELSE "needs_backup"

\* the payload of the needs_backup item
BackupPayload(c) ==
    [ attempted_path |-> "nas_raw_backup_dir",
      error |-> callers[c].error,
      raw_path |-> callers[c].raw_destination ]

\* if not success: the needs_backup item; UPDATE tapes SET backup_status;
\* conn.commit(); return {"status": "ingested", ...}
IngestRecord(c) ==
    /\ callers[c].pc = "record"
    /\ IF lock = Unlocked
       THEN /\ review_items' =
                  IF callers[c].success THEN review_items
                  ELSE Append(review_items,
                              ReviewItem("needs_backup", callers[c].tape_id,
                                         BackupPayload(c)))
            /\ tapes' = [tapes EXCEPT ![callers[c].tape_id].backup_status =
                                          backup_status(callers[c].success)]
            /\ callers' = Done(c, [status |-> "ingested",
                                   message |-> "Ingested",
                                   tape_id |-> callers[c].tape_id,
                                   backup_status |-> backup_status(callers[c].success)])
       ELSE /\ callers' = Done(c, RaisedResult)
            /\ UNCHANGED <<tapes, review_items>>
    /\ UNCHANGED <<jobVars, auxVars, placeVars, exportVars, raw_dir, ingests>>

InitIngest == JobsIdle /\ OthersIdle

NextIngest ==
    \/ \E c \in Callers, name \in IngestNames :
          IngestLookup(c, name)
    \/ \E c \in Callers :
          \/ IngestResolve(c)
          \/ IngestCopy(c)
          \/ IngestWriteTape(c)
          \/ IngestBackup(c)
          \/ IngestRecord(c)
    \/ FgBeginWrite
    \/ FgCommit

SpecIngest == InitIngest /\ [][NextIngest]_vars

\* ----------------------------------------------------- the media handlers
\* process_media, accept_suggestions, ignore_suggestions and export_segments
\* on request threads, each on a connection of its own.  A handler's
\* statements are one transaction: its first write takes the write lock,
\* its commit shows its writes to the other connections and releases the
\* lock.  process_media and export_segments hold the lock over their media
\* work; a first write that meets the lock waits, or raises "database is
\* locked" after busy_timeout and the handler's connection is closed.
\* ffmpeg is installed and the raw files are on disk.

\* the write lock held by the transaction of request thread r
RunnerLock(r) == [by |-> "runner", thread |-> r]

\* what the media handlers never touch
mediaFrame ==
    <<jobs, queue, workers, fg, committed, requests, placeVars, raw_dir,
      callers, ingests, auxVars>>

\* Faulty variant of Resolved, for the sensitivity run of C19: the UPDATE
\* is left out.
ResolvedNothing(items, type, t) == items

\* Faulty variant of Resolved, for the sensitivity run of C20: the UPDATE
\* with tape_id <> ?.
ResolvedOtherTapes(items, type, t) ==
    [i \in DOMAIN items |->
        IF items[i].type = type /\ items[i].tape_id # t /\ items[i].status = "open"
        THEN [items[i] EXCEPT !.status = "resolved"] ELSE items[i]]

\* UPDATE review_items SET status = 'resolved' WHERE tape_id = ? AND type = ?
\* AND status = 'open'
Resolved(items, type, t) ==
    [i \in DOMAIN items |->
        IF items[i].type = type /\ items[i].tape_id = t /\ items[i].status = "open"
        THEN [items[i] EXCEPT !.status = "resolved"] ELSE items[i]]

\* a row of segment_suggestions as process_media inserts it
NewSuggestion == [status |-> "open", notes |-> Empty]

\* the tape's open suggestions
open_count(t) ==
    Cardinality({i \in DOMAIN suggestions[t] : suggestions[t][i].status = "open"})

\* UPDATE segment_suggestions SET status = ? WHERE tape_id = ? AND status = 'open'
Marked(rows, status) ==
    [i \in DOMAIN rows |->
        IF rows[i].status = "open" THEN [rows[i] EXCEPT !.status = status]
        ELSE rows[i]]

\* Faulty variant of Superseded, for the sensitivity run of C32: the open
\* rows are deleted.
SupersededDeleted(rows) == SelectSeq(rows, LAMBDA row : row.status # "open")

\* UPDATE segment_suggestions SET status = 'ignored', notes = 'superseded'
\* WHERE tape_id = ? AND status = 'open'
Superseded(rows) ==
    [i \in DOMAIN rows |->
        IF rows[i].status = "open"
        THEN [status |-> "ignored", notes |-> "superseded"] ELSE rows[i]]

\* the handler of thread r is through, by return or by an exception
Finished(r) == [runners EXCEPT ![r] = IdleRunner]

\* a request begins
Begins == ops < MaxOps /\ ops' = ops + 1

\* _process_media_for_tape up to scene detection: the metadata and thumbnail
\* UPDATE of tapes is its first write
ProcessMediaBegin(r, t) ==
    /\ runners[r].pc = "idle"
    /\ Begins
    /\ IF lock = Unlocked
       THEN /\ lock' = RunnerLock(r)
            /\ runners' = [runners EXCEPT ![r] = [IdleRunner EXCEPT
                                                    !.pc = "process", !.tape = t]]
       ELSE UNCHANGED <<lock, runners>>
    /\ UNCHANGED <<mediaFrame, tapes, review_items, segments, suggestions, outputs, clips>>

\* ... and from scene detection on: open suggestions are superseded, the
\* suggestions found are stored, the open needs_split_review item is
\* resolved and, with suggestions, a new one opened; the handler commits
ProcessMediaEnd(r) ==
    /\ runners[r].pc = "process"
    /\ \E found \in {0, 2} :
          /\ suggestions' = [suggestions EXCEPT ![runners[r].tape] =
                Superseded(@) \o [i \in 1..found |-> NewSuggestion]]
          /\ review_items' =
                IF found > 0
                THEN Append(Resolved(review_items, "needs_split_review", runners[r].tape),
                            ReviewItem("needs_split_review", runners[r].tape, NoPayload))
                ELSE Resolved(review_items, "needs_split_review", runners[r].tape)
    /\ lock' = Unlocked
    /\ runners' = Finished(r)
    /\ UNCHANGED <<mediaFrame, tapes, segments, outputs, clips, ops>>

\* UPDATE tapes SET status = 'Mastered' WHERE id = ?, for a tape that is
\* New or Ingested
Mastered(rows, t) ==
    IF t \in DOMAIN rows /\ rows[t].status \in {"New", "Ingested"}
    THEN [rows EXCEPT ![t].status = "Mastered"]
    ELSE rows

\* accept_suggestions: without open suggestions nothing is written; else a
\* segment per suggestion, the suggestions accepted, the open
\* needs_split_review item resolved, the tape Mastered, commit
AcceptSuggestions(r, t) ==
    /\ runners[r].pc = "idle"
    /\ Begins
    /\ Len(segments[t]) + open_count(t) <= MaxSegs
    /\ IF open_count(t) > 0 /\ lock = Unlocked
       THEN /\ segments' = [segments EXCEPT
                   ![t] = @ \o [i \in 1..open_count(t) |-> NewSegment]]
            /\ suggestions' = [suggestions EXCEPT ![t] = Marked(@, "accepted")]
            /\ review_items' = Resolved(review_items, "needs_split_review", t)
            /\ tapes' = Mastered(tapes, t)
       ELSE UNCHANGED <<segments, suggestions, review_items, tapes>>
    /\ UNCHANGED <<mediaFrame, lock, outputs, clips, runners>>

\* ignore_suggestions: the open suggestions ignored, the open
\* needs_split_review item resolved, commit
IgnoreSuggestions(r, t) ==
    /\ runners[r].pc = "idle"
    /\ Begins
    /\ IF lock = Unlocked
       THEN /\ suggestions' = [suggestions EXCEPT ![t] = Marked(@, "ignored")]
            /\ review_items' = Resolved(review_items, "needs_split_review", t)
       ELSE UNCHANGED <<suggestions, review_items>>
    /\ UNCHANGED <<mediaFrame, tapes, lock, segments, outputs, clips, runners>>

\* _export_segments_for_tape up to its loop: the tape's segments are
\* fetched; without segments it raises ValueError
ExportBegin(r, t, force) ==
    /\ runners[r].pc = "idle"
    /\ Begins
    /\ runners' =
          IF segments[t] = << >> THEN runners
          ELSE [runners EXCEPT ![r] = [IdleRunner EXCEPT
                   !.pc = "export", !.tape = t, !.force = force, !.index = 1,
                   !.rows = segments[t]]]
    /\ UNCHANGED <<mediaFrame, tapes, lock, review_items, segments, suggestions, outputs, clips>>

\* output_path = output_dir / f"segment_{index:03d}.mp4"
output_path(r) == <<runners[r].tape, runners[r].index>>

\* output_path.exists()
exists(path) == outputs[path] > 0

\* Faulty variant of Skips, for the sensitivity run of C18: force is not
\* looked at.
SkipsExisting(r) == exists(output_path(r))

\* if output_path.exists() and not force
Skips(r) == exists(output_path(r)) /\ ~runners[r].force

\* Faulty variant of Updated, for the sensitivity run of C26: every row is
\* marked exported.
UpdatedExported(r, status) ==
    [runners[r].rows EXCEPT ![runners[r].index] =
        [export_status |-> "exported", output_path |-> output_path(r)]]

\* UPDATE segments SET output_path = ?, ..., export_status = ? WHERE id = ?
\* on the rows of thread r's transaction
Updated(r, status) ==
    [runners[r].rows EXCEPT ![runners[r].index] =
        [export_status |-> status, output_path |-> output_path(r)]]

\* one pass of the loop for a segment whose output exists, without force:
\* counted as skipped, the row updated, the clip tool not run
ExportSkip(r) ==
    /\ runners[r].pc = "export"
    /\ runners[r].index <= Len(runners[r].rows)
    /\ Skips(r)
    /\ IF lock \in {Unlocked, RunnerLock(r)}
       THEN /\ lock' = RunnerLock(r)
            /\ runners' = [runners EXCEPT
                  ![r].skipped_count = @ + 1,
                  ![r].rows = Updated(r, "exported"),
                  ![r].index = @ + 1]
       ELSE /\ runners' = Finished(r)
            /\ UNCHANGED lock
    /\ UNCHANGED <<mediaFrame, tapes, review_items, segments, suggestions, outputs, clips, ops>>

\* export_segment_clip(raw_path, output_path, start, duration, force=force):
\* the clip tool writes the output file, over an existing one, and reports
\* exported; or it fails and reports so, the output as it was
ClipOutcomes == {"exported", "failed"}

\* the files after a run of the clip tool on path
export_segment_clip(path, outcome) ==
    IF outcome = "exported" THEN [outputs EXCEPT ![path] = @ + 1] ELSE outputs

\* one pass of the loop otherwise: the clip tool runs; with status exported
\* and the output on disk the segment is counted as exported, else as
\* failed and the failure kept; the row is updated
ExportClip(r) ==
    /\ runners[r].pc = "export"
    /\ runners[r].index <= Len(runners[r].rows)
    /\ ~Skips(r)
    /\ clips' = clips + 1
    /\ \E outcome \in ClipOutcomes :
          /\ outputs' = export_segment_clip(output_path(r), outcome)
          /\ IF lock \in {Unlocked, RunnerLock(r)}
             THEN /\ lock' = RunnerLock(r)
                  /\ runners' =
                        IF outcome = "exported" /\ outputs'[output_path(r)] > 0
                        THEN [runners EXCEPT
                                 ![r].exported_count = @ + 1,
                                 ![r].rows = Updated(r, "exported"),
                                 ![r].index = @ + 1]
                        ELSE [runners EXCEPT
                                 ![r].failures = Append(@, runners[r].index),
                                 ![r].rows = Updated(r, "failed"),
                                 ![r].index = @ + 1]
             ELSE /\ runners' = Finished(r)
                  /\ UNCHANGED lock
    /\ UNCHANGED <<mediaFrame, tapes, review_items, segments, suggestions, ops>>

\* the rows of a tape after the commit of thread r's updates: rows accepted
\* meanwhile are not among them
Committed(r) ==
    [i \in DOMAIN segments[runners[r].tape] |->
        IF i \in DOMAIN runners[r].rows
        THEN runners[r].rows[i] ELSE segments[runners[r].tape][i]]

\* after the loop: the open needs_export_review item is resolved and, with
\* failures, a new one opened with the failures as payload; the function
\* returns its counts and the handler commits
ExportEnd(r) ==
    /\ runners[r].pc = "export"
    /\ runners[r].index > Len(runners[r].rows)
    /\ review_items' =
          IF runners[r].failures # << >>
          THEN Append(Resolved(review_items, "needs_export_review", runners[r].tape),
                      ReviewItem("needs_export_review", runners[r].tape,
                                 [failures |-> runners[r].failures]))
          ELSE Resolved(review_items, "needs_export_review", runners[r].tape)
    /\ segments' = [segments EXCEPT ![runners[r].tape] = Committed(r)]
    /\ lock' = Unlocked
    /\ runners' = Finished(r)
    /\ UNCHANGED <<mediaFrame, tapes, suggestions, outputs, clips, ops>>

\* a project whose first tape has two segments, their files on disk or not
InitExport ==
    /\ JobsIdle
    /\ PlaceIdle
    /\ IngestIdle
    /\ AuxIdle
    /\ segments = [t \in Tapes |-> IF t = 1 THEN <<NewSegment, NewSegment>> ELSE << >>]
    /\ suggestions = [t \in Tapes |-> << >>]
    /\ outputs \in {o \in [Files -> {0, 1}] :
                       \A f \in Files : o[f] > 0 => f[1] = 1 /\ f[2] <= 2}
    /\ clips = 0
    /\ runners = [r \in Callers |-> IdleRunner]
    /\ ops = 0

NextExport ==
    \E r \in Callers :
        \/ \E t \in Tapes :
              \/ ProcessMediaBegin(r, t)
              \/ AcceptSuggestions(r, t)
              \/ IgnoreSuggestions(r, t)
              \/ \E force \in BOOLEAN : ExportBegin(r, t, force)
        \/ ProcessMediaEnd(r)
        \/ ExportSkip(r)
        \/ ExportClip(r)
        \/ ExportEnd(r)

SpecExport == InitExport /\ [][NextExport]_vars

\* ------------------------------------------------------- tapes and status
\* The tape form, ingests with or without a tape_id, process_media and
\* accept_suggestions together, on the tapes table: one thread ingests,
\* one request thread runs the form and the media handlers.

STATUS_OPTIONS == <<"New", "Ingested", "Mastered", "Reviewed", "Final">>

\* bound on the tapes made with the form
MaxTapes == 1

\* the row the tape form inserts: status New, no raw file, no digest
NewTapeRow ==
    [ source_label |-> << >>,
      raw_path |-> << >>,
      sha256 |-> compute_sha256([data |-> "NULL", damaged_at |-> << >>]),
      status |-> STATUS_OPTIONS[1],
      backup_status |-> "NULL" ]

\* new_tape: INSERT INTO tapes, commit
CreateTape ==
    /\ Len(tapes) < MaxTapes
    /\ lock = Unlocked
    /\ tapes' = Append(tapes, NewTapeRow)
    /\ UNCHANGED <<jobVars, auxVars, placeVars, exportVars, review_items, raw_dir,
                   callers, ingests>>

\* the names and tape ids the ingests are asked for (0: no tape_id)
TapeNames == {clip_mp4, <<"c", ".", "m", "p", "4">>, <<"x">>, missing_mp4}

TapeIds == 0..2

\* _process_media_for_tape goes on only for a tape that has a raw file
HasRaw(t) == t \in DOMAIN tapes /\ tapes[t].raw_path \in DOMAIN raw_dir

InitTapes == JobsIdle /\ OthersIdle

NextTapes ==
    \/ CreateTape
    \/ \E c \in {1}, name \in TapeNames, tape_id \in TapeIds :
          IngestLookupFor(c, name, tape_id)
    \/ \E c \in {1} :
          \/ IngestResolve(c)
          \/ IngestCopy(c)
          \/ IngestWriteTape(c)
          \/ IngestBackup(c)
          \/ IngestRecord(c)
    \/ \E r \in {1} :
          \/ \E t \in Tapes :
                \/ HasRaw(t) /\ ProcessMediaBegin(r, t)
                \/ AcceptSuggestions(r, t)
          \/ ProcessMediaEnd(r)

SpecTapes == InitTapes /\ [][NextTapes]_vars

\* ================================================================ review queue

reviewFrame ==
    <<jobVars, auxVars, placeVars, segments, suggestions, outputs, clips,
      runners, raw_dir, ingests>>

\* the review items a request can name: the stored ones and one id past them
ItemIds == 1..3

\* resolve_review_item: UPDATE review_items SET status = 'resolved' WHERE
\* id = ?; conn.commit()
ResolveReviewItem(c, item_id) ==
    /\ callers[c].pc = "idle"
    /\ ops < MaxOps
    /\ ops' = ops + 1
    /\ IF lock = Unlocked
       THEN /\ review_items' =
                  [i \in DOMAIN review_items |->
                      IF i = item_id
                      THEN [review_items[i] EXCEPT !.status = "resolved"]
                      ELSE review_items[i]]
            /\ callers' = Done(c, [NoResult EXCEPT !.status = "resolved",
                                                   !.message = "Review item resolved."])
       ELSE /\ callers' = Done(c, RaisedResult)
            /\ UNCHANGED review_items
    /\ UNCHANGED <<reviewFrame, tapes>>

\* retry_backup_item up to the call of retry_backup: the item must exist, be
\* a needs_backup item with a tape, and the tape must have a raw path;
\* retry_backup: the raw file must exist
RetryBackupItem(c, item_id) ==
    /\ callers[c].pc = "idle"
    /\ ops < MaxOps
    /\ ops' = ops + 1
    /\ callers' =
          IF item_id \notin DOMAIN review_items
          THEN Done(c, ErrorResult("Review item not found."))
          ELSE IF \/ review_items[item_id].type # "needs_backup"
                  \/ review_items[item_id].tape_id = 0
          THEN Done(c, ErrorResult("Review item cannot be retried."))
          ELSE IF \/ review_items[item_id].tape_id \notin DOMAIN tapes
                  \/ tapes[review_items[item_id].tape_id].raw_path = << >>
          THEN Done(c, ErrorResult("Raw path missing for backup retry."))
          ELSE IF tapes[review_items[item_id].tape_id].raw_path \notin DOMAIN raw_dir
          THEN Done(c, ErrorResult("Raw file not found for retry."))
          ELSE [callers EXCEPT ![c] =
                   [IdleCaller EXCEPT !.pc = "retry",
                                      !.item = item_id,
                                      !.tape_id = review_items[item_id].tape_id]]
    /\ UNCHANGED <<reviewFrame, tapes, review_items>>

\* is_nas_available(); success, nas_path, error = _attempt_nas_backup(...)
RetryBackup(c) ==
    /\ callers[c].pc = "retry"
    /\ \E o \in BackupOutcomes :
          callers' = [callers EXCEPT ![c].pc = "retried",
                                     ![c].success = o.success,
                                     ![c].error = o.error]
    /\ UNCHANGED <<reviewFrame, tapes, review_items, ops>>

\* if success: UPDATE tapes SET backup_status = 'backed_up'; back in
\* retry_backup_item, UPDATE review_items SET status = 'resolved' WHERE id =
\* item_id; conn.commit(). Otherwise the error result and an empty commit.
RetryBackupRecord(c) ==
    /\ callers[c].pc = "retried"
    /\ IF ~callers[c].success
       THEN /\ callers' = Done(c, ErrorResult("Backup retry failed"))
            /\ UNCHANGED <<tapes, review_items>>
       ELSE IF lock = Unlocked
       THEN /\ tapes' = [tapes EXCEPT ![callers[c].tape_id].backup_status = "backed_up"]
            /\ review_items' = [review_items EXCEPT ![callers[c].item].status = "resolved"]
            /\ callers' = Done(c, [NoResult EXCEPT !.status = "backed_up",
                                                   !.message = "Backup completed"])
       ELSE /\ callers' = Done(c, RaisedResult)
            /\ UNCHANGED <<tapes, review_items>>
    /\ UNCHANGED <<reviewFrame, ops>>

\* the files and the tape ids of the ingest requests; one thread ingests,
\* another works on the review queue
ReviewNames == {clip_mp4, <<"c", ".", "m", "p", "4">>}

ReviewTapeIds == 0..1

InitReview == JobsIdle /\ OthersIdle

NextReview ==
    \/ \E c \in {1}, name \in ReviewNames, tape_id \in ReviewTapeIds :
          IngestLookupFor(c, name, tape_id)
    \/ \E c \in {1} :
          \/ IngestResolve(c)
          \/ IngestCopy(c)
          \/ IngestWriteTape(c)
          \/ IngestBackup(c)
          \/ IngestRecord(c)
    \/ \E c \in {2} :
          \/ \E item_id \in ItemIds :
                \/ ResolveReviewItem(c, item_id)
                \/ RetryBackupItem(c, item_id)
          \/ RetryBackup(c)
          \/ RetryBackupRecord(c)
    \/ FgBeginWrite
    \/ FgCommit

SpecReview == InitReview /\ [][NextReview]_vars

\* ================================================================ clip names
\* The segments of one tape with their start_seconds, kept in the order of
\* SELECT * FROM segments WHERE tape_id = ? ORDER BY start_seconds ASC, and
\* for each file segment_<index>.mp4 the start of the range it was clipped
\* from (-1: no such file).

\* start_seconds of the suggestions that can be accepted
Starts == {0, 100, 200}

ShelfRow(start) == [start |-> start, export_status |-> "not_exported", output_path |-> 0]

\* the rows with one more, in ascending order of start
RECURSIVE Ordered(_, _)
Ordered(rows, row) ==
    IF rows = << >> THEN <<row>>
    ELSE IF row.start < Head(rows).start THEN <<row>> \o rows
    ELSE <<Head(rows)>> \o Ordered(Tail(rows), row)

\* accept_suggestions: INSERT INTO segments (tape_id, start_seconds,
\* end_seconds, ...) for an open suggestion
AcceptSegment(start) ==
    /\ shelf.pc = "idle"
    /\ Len(shelf.segments) < MaxShelf
    /\ \A i \in DOMAIN shelf.segments : shelf.segments[i].start # start
    /\ shelf' = [shelf EXCEPT !.segments = Ordered(@, ShelfRow(start))]
    /\ UNCHANGED <<jobVars, placeVars, ingestVars, exportVars, scene, retry, batch>>

\* _export_segments_for_tape: the segments are fetched and the loop begins
ExportRunBegin(force) ==
    /\ shelf.pc = "idle"
    /\ shelf.runs < MaxRuns
    /\ shelf.segments # << >>
    /\ shelf' = [shelf EXCEPT !.pc = "export", !.force = force, !.index = 1,
                              !.runs = @ + 1]
    /\ UNCHANGED <<jobVars, placeVars, ingestVars, exportVars, scene, retry, batch>>

\* output_path = output_dir / f"segment_{index:03d}.mp4"
NamedByPosition(index) == index

\* one pass of for index, segment in enumerate(segments, start=1): the file
\* of that index exists and force is off, and the row is marked exported;
\* or the clip tool runs on the segment's range and the row is marked
\* exported or failed
ExportRunPass ==
    /\ shelf.pc = "export"
    /\ shelf.index <= Len(shelf.segments)
    /\ LET index == shelf.index
           path == NamedByPosition(index)
       IN  IF shelf.files[path] # -1 /\ ~shelf.force
           THEN shelf' = [shelf EXCEPT
                   !.segments[index].export_status = "exported",
                   !.segments[index].output_path = path,
                   !.index = @ + 1]
           ELSE \E outcome \in ClipOutcomes :
                   shelf' = [shelf EXCEPT
                      !.files[path] =
                          IF outcome = "exported" THEN shelf.segments[index].start ELSE @,
                      !.segments[index].export_status = outcome,
                      !.segments[index].output_path = path,
                      !.index = @ + 1]
    /\ UNCHANGED <<jobVars, placeVars, ingestVars, exportVars, scene, retry, batch>>

\* the loop is through; the handler commits
ExportRunEnd ==
    /\ shelf.pc = "export"
    /\ shelf.index > Len(shelf.segments)
    /\ shelf' = [shelf EXCEPT !.pc = "idle", !.index = 0, !.force = FALSE]
    /\ UNCHANGED <<jobVars, placeVars, ingestVars, exportVars, scene, retry, batch>>

InitShelf ==
    /\ JobsIdle
    /\ PlaceIdle
    /\ IngestIdle
    /\ ExportIdle
    /\ AuxIdle

NextShelf ==
    \/ \E start \in Starts : AcceptSegment(start)
    \/ \E force \in BOOLEAN : ExportRunBegin(force)
    \/ ExportRunPass
    \/ ExportRunEnd

SpecShelf == InitShelf /\ [][NextShelf]_vars

\* ================================================================ scenes
\* suggest_scene_segments on its own.  Times are whole seconds.

\* Faulty variant of MIN_SEGMENT_SECONDS, for the sensitivity run of C29.
short_minimum == 30 + 0

MIN_SEGMENT_SECONDS == 90

\* the times the detection run may report a cut at, and the durations the
\* probe may report (0: no duration)
CutCandidates == {0, 40, 100, 160, 190, 300, 390}

Durations == {0, 100, 300, 390}

\* how the run of the media tool ends
ToolOutcomes == {"ok", "missing", "timeout", "failed"}

SceneSuggestion(start, end) ==
    [start_seconds |-> start, end_seconds |-> end, confidence |-> "None"]

\* sorted(set(points))
RECURSIVE parse_pts_times(_)
parse_pts_times(points) ==
    IF points = {} THEN << >>
    ELSE LET least == CHOOSE p \in points : \A q \in points : p <= q
         IN  <<least>> \o parse_pts_times(points \ {least})

\* the loop of _merge_short_segments from the i-th segment on
RECURSIVE merged_from(_, _, _)
merged_from(segs, i, merged) ==
    IF i > Len(segs) THEN merged
    ELSE LET segment == segs[i]
             current == merged[Len(merged)]
             extended == [merged EXCEPT ![Len(merged)] =
                             [current EXCEPT !.end_seconds = segment.end_seconds]]
         IN  IF merged = << >> THEN merged_from(segs, i + 1, <<segment>>)
             ELSE IF segment.end_seconds - segment.start_seconds < MIN_SEGMENT_SECONDS
                  THEN merged_from(segs, i + 1, extended)
             ELSE IF current.end_seconds - current.start_seconds < MIN_SEGMENT_SECONDS
                  THEN merged_from(segs, i + 1, extended)
             ELSE merged_from(segs, i + 1, Append(merged, segment))

\* Faulty variant of merge_short_segments, for the sensitivity run of C21:
\* nothing is merged.
merge_nothing(segs) == segs

merge_short_segments(segs) == merged_from(segs, 1, << >>)

\* the loop over the cut points: the segments so far and where the next starts
RECURSIVE segments_from(_, _, _, _)
segments_from(cut_points, i, start, segs) ==
    IF i > Len(cut_points) THEN [start |-> start, segments |-> segs]
    ELSE LET cut == cut_points[i]
         IN  IF cut <= start THEN segments_from(cut_points, i + 1, start, segs)
             ELSE segments_from(cut_points, i + 1, cut,
                                Append(segs, SceneSuggestion(start, cut)))

\* the segments between the cuts, and the one up to the duration
build_segments(cut_points, duration) ==
    LET loop == segments_from(cut_points, 1, 0, << >>)
    IN  IF duration > loop.start
        THEN Append(loop.segments, SceneSuggestion(loop.start, duration))
        ELSE loop.segments

suggest_scene_segments(tool, duration, points) ==
    IF tool = "missing" THEN << >>
    ELSE IF duration = 0 THEN << >>
    ELSE IF tool # "ok" THEN << >>
    ELSE LET cut_points == parse_pts_times(points)
             merged == merge_short_segments(build_segments(cut_points, duration))
         IN  IF Len(cut_points) <= 1 THEN << >>
             ELSE IF Len(merged) <= 1 THEN << >>
             ELSE merged

InitScene ==
    /\ JobsIdle
    /\ PlaceIdle
    /\ IngestIdle
    /\ ExportIdle
    /\ scene \in [tool : ToolOutcomes, duration : Durations,
                  cut_points : SUBSET CutCandidates, returned : {FALSE},
                  suggested : {<< >>}]
    /\ retry = IdleRetry
    /\ batch = IdleBatch
    /\ shelf = IdleShelf

SuggestSceneSegments ==
    /\ ~scene.returned
    /\ scene' = [scene EXCEPT
                    !.returned = TRUE,
                    !.suggested = suggest_scene_segments(scene.tool, scene.duration,
                                                         scene.cut_points)]
    /\ UNCHANGED <<jobVars, placeVars, ingestVars, exportVars, retry, batch, shelf>>

SpecScene == InitScene /\ [][SuggestSceneSegments]_vars

\* ================================================================ update_job
\* One call of update_job on a connection of its own, attempt by attempt.

\* Faulty variant of max_retries, for the sensitivity run of C27.
few_retries == 3 + 0

max_retries == 50

\* the rows update_job is called on, and the keyword arguments it is given
\* (none at all among them)
RetryRows ==
    { NewJobRow, update_job_row(NewJobRow, [status |-> "running"]),
      update_job_row(NewJobRow, CancelKw) }

RetryKws ==
    { << >>, [status |-> "running"], CancelKw, FailedKw(ErrorText("boom")),
      [percent |-> 150, step |-> "Copy files", detail |-> "copying"] }

\* what conn.execute and conn.commit of one attempt meet: they go through,
\* or raise sqlite3.OperationalError with this message
AttemptOutcomes == {"committed", "database is locked", "disk I/O error"}

InitRetry ==
    /\ queue = << >>
    /\ workers = [w \in Threads |-> IdleWorker]
    /\ fg = IdleFg
    /\ lock = Unlocked
    /\ committed = [j \in 1..MaxJobs |-> 0]
    /\ requests = 0
    /\ PlaceIdle
    /\ IngestIdle
    /\ ExportIdle
    /\ scene = IdleScene
    /\ batch = IdleBatch
    /\ shelf = IdleShelf
    /\ \E row \in RetryRows, kw \in RetryKws :
          /\ jobs = <<row>>
          /\ retry = [IdleRetry EXCEPT !.pc = "call", !.kw = kw, !.before = row]

\* update_job up to its loop: without fields it returns
UpdateJobCall ==
    /\ retry.pc = "call"
    /\ retry' = [retry EXCEPT !.pc = IF DOMAIN retry.kw = {} THEN "returned" ELSE "loop"]
    /\ UNCHANGED <<jobVars, placeVars, ingestVars, exportVars, scene, batch, shelf>>

\* one pass of the loop: execute and commit, then break; or "database is
\* locked": RuntimeError on the last attempt, else sleep and go on; or
\* another OperationalError, raised as it is
UpdateJobAttempt ==
    /\ retry.pc = "loop"
    /\ \E outcome \in AttemptOutcomes :
          IF outcome = "committed"
          THEN /\ jobs' = UpdateJobs(jobs, 1, retry.kw)
               /\ retry' = [retry EXCEPT !.pc = "returned", !.met = outcome,
                                         !.commits = @ + 1]
          ELSE /\ UNCHANGED jobs
               /\ retry' =
                     IF outcome # "database is locked"
                     THEN [retry EXCEPT !.pc = "raised", !.met = outcome,
                                        !.exception = "OperationalError"]
                     ELSE IF retry.attempt = max_retries - 1
                     THEN [retry EXCEPT !.pc = "raised", !.met = outcome,
                                        !.exception = "RuntimeError"]
                     ELSE [retry EXCEPT !.attempt = @ + 1, !.met = outcome]
    /\ UNCHANGED <<queue, workers, fg, lock, committed, requests>>
    /\ UNCHANGED <<placeVars, ingestVars, exportVars, scene, batch, shelf>>

NextRetry == UpdateJobCall \/ UpdateJobAttempt

SpecRetry == InitRetry /\ [][NextRetry]_vars

\* ================================================================ ingest requests
\* One ingest request: /ingest/start_file and /ingest/start_all hand a
\* run_job(conn, progress) closure to enqueue_job; /ingest/all runs its loop
\* in the request.  ingest_inbox_file is taken by its result for each file.

\* bound on the files of the inbox
MaxBatch == 3

\* what a file of the inbox can be: new and ingested without trouble; new
\* when listed and ingested by another request before its turn; new and its
\* copy fails; already ingested when listed
ListedCases == {"new", "raced", "failing", "known"}

\* what the file named in the form of /ingest/start_file can be
FormCases == ListedCases \cup {"missing", "not_mp4"}

\* InboxFile.status of list_inbox_files
listed_status(case) == IF case = "known" THEN "ingested" ELSE "new"

\* the result of ingest_inbox_file
ingest_result(case) ==
    CASE case = "new" -> [status |-> "ingested", message |-> "Ingested"]
      [] case \in {"raced", "known"} ->
            [status |-> "already_ingested", message |-> "Already ingested"]
      [] case = "failing" -> [status |-> "error", message |-> "Copy failed"]
      [] case = "missing" -> [status |-> "error", message |-> "File not found"]
      [] OTHER -> [status |-> "error", message |-> "Unsupported file type"]

InitRequest ==
    /\ JobsIdle
    /\ PlaceIdle
    /\ IngestIdle
    /\ ExportIdle
    /\ scene = IdleScene
    /\ retry = IdleRetry
    /\ shelf = IdleShelf
    /\ \E handler \in {"ingest_start_file", "ingest_start_all", "ingest_all"} :
       \E files \in IF handler = "ingest_start_file" THEN [1..1 -> FormCases]
                    ELSE UNION { [1..n -> ListedCases] : n \in 1..MaxBatch } :
          batch = [IdleBatch EXCEPT !.handler = handler, !.files = files,
                                    !.pc = "request", !.index = 1]

\* ingest_start_file, ingest_start_all: create_job, enqueue_job(run_job)
StartIngestJob ==
    /\ batch.handler \in {"ingest_start_file", "ingest_start_all"}
    /\ StartJob("run_job")

\* one pass of the loop of ingest_all: a file that is not new is skipped;
\* else ingest_inbox_file is called and an ingested result counted
IngestAllPass ==
    /\ batch.handler = "ingest_all"
    /\ batch.pc = "request"
    /\ batch.index <= Len(batch.files)
    /\ batch' =
          IF listed_status(batch.files[batch.index]) # "new"
          THEN [batch EXCEPT !.skipped = @ + 1, !.index = @ + 1]
          ELSE [batch EXCEPT
                   !.calls = @ + 1,
                   !.ingested =
                       IF ingest_result(batch.files[batch.index]).status = "ingested"
                       THEN @ + 1 ELSE @,
                   !.index = @ + 1]
    /\ UNCHANGED <<jobVars, placeVars, ingestVars, exportVars, scene, retry, shelf>>

\* after the loop: conn.commit(), the redirect with the counts
IngestAllEnd ==
    /\ batch.handler = "ingest_all"
    /\ batch.pc = "request"
    /\ batch.index > Len(batch.files)
    /\ batch' = [batch EXCEPT !.pc = "done"]
    /\ UNCHANGED <<jobVars, placeVars, ingestVars, exportVars, scene, retry, shelf>>

NextRequest ==
    \/ StartIngestJob
    \/ IngestAllPass
    \/ IngestAllEnd
    \/ \E w \in Threads :
          \/ WorkerTake(w)
          \/ MarkRunning(w)
          \/ CallRunJob(w)
          \/ MarkFailed(w)

SpecRequest == InitRequest /\ [][NextRequest]_vars

\* ================================================================ claims

\* the status changes a job row may show: queued -> running, and from queued
\* or running to a terminal status
Lifecycle ==
    {<<"queued", "running">>} \cup ({"queued", "running"} \X Terminal)

\* C1: a job's status changes only along queued -> running -> {success,
\* failed, canceled, stale}: running is entered only from queued, and a job
\* in a terminal status keeps it, whatever the worker, cancel requests and
\* the stale sweep do.
C1_StatusLifecycle ==
    [][\A j \in DOMAIN jobs :
          jobs'[j].status # jobs[j].status
              => <<jobs[j].status, jobs'[j].status>> \in Lifecycle]_vars

\* C2: started_at is written by the first update to running, finished_at by
\* the first update (or sweep) to a terminal status, and a stamp that is
\* non-empty never changes again.
C2_StampsWrittenOnce ==
    [][\A j \in DOMAIN jobs :
          /\ jobs[j].started_at # Empty => jobs'[j].started_at = jobs[j].started_at
          /\ jobs[j].finished_at # Empty => jobs'[j].finished_at = jobs[j].finished_at
          /\ (jobs'[j].status = "running" /\ jobs[j].status # "running")
                => jobs'[j].started_at # Empty
          /\ (jobs'[j].status \in Terminal /\ jobs[j].status # jobs'[j].status)
                => jobs'[j].finished_at # Empty
          /\ (jobs[j].started_at = Empty /\ jobs'[j].started_at # Empty)
                => jobs'[j].status = "running"
          /\ (jobs[j].finished_at = Empty /\ jobs'[j].finished_at # Empty)
                => jobs'[j].status \in Terminal]_vars

\* C2's case: a job stamped by its cancel request while it was queued has
\* since been updated to running and to failed or success by the worker.
C2_Witness ==
    \E j \in DOMAIN jobs :
        /\ jobs[j].finished_at = Now("canceled")
        /\ jobs[j].started_at = Now("running")
        /\ jobs[j].status \in {"success", "failed"}

\* C3: every stored percent is within 0..100: a progress report of percent p
\* stores max(0, min(100, p)) (150 is stored as 100, -5 as 0).
C3_PercentClamped ==
    /\ [](\A j \in DOMAIN jobs : jobs[j].percent \in 0..100)
    /\ [][\A w \in Threads :
             (/\ workers[w].pc = "in_work"
              /\ Op(w).op = "progress"
              /\ workers'[w].ip = workers[w].ip + 1)
             => jobs'[workers[w].job].percent =
                   (IF Op(w).percent > 100 THEN 100
                    ELSE IF Op(w).percent < 0 THEN 0 ELSE Op(w).percent)]_vars

\* C3's case: one job has had its report of 150 stored and another its
\* report of -5, and is still running.
C3_Witness ==
    \E j, k \in DOMAIN jobs :
        /\ jobs[j].current_step = "Done" /\ jobs[j].percent = 100
        /\ jobs[k].current_step = "Validate" /\ jobs[k].percent = 0
        /\ jobs[k].status = "running"

\* C4: the stale sweep turns every job that is running into stale, with a
\* non-empty error_text (one already present is kept) and a stamped
\* finished_at, and leaves every job in any other status as it was.
C4_SweepMarksRunningStale ==
    [][StaleSweep =>
          /\ DOMAIN jobs' = DOMAIN jobs
          /\ \A j \in DOMAIN jobs :
                IF jobs[j].status = "running"
                THEN /\ jobs'[j].status = "stale"
                     /\ jobs'[j].error_text # Empty
                     /\ jobs[j].error_text # Empty
                           => jobs'[j].error_text = jobs[j].error_text
                     /\ jobs'[j].finished_at # Empty
                     /\ jobs'[j] = [jobs[j] EXCEPT
                                       !.status = jobs'[j].status,
                                       !.error_text = jobs'[j].error_text,
                                       !.finished_at = jobs'[j].finished_at]
                ELSE jobs'[j] = jobs[j]]_vars

\* C4's case: the sweep has run over a table with a running row that held
\* an error_text and a row in another status.
C4_Witness ==
    /\ requests > 0
    /\ \E j, k \in DOMAIN jobs :
          /\ jobs[j].status = "stale"
          /\ jobs[j].error_text = "boom"
          /\ jobs[j].finished_at = Now("stale")
          /\ jobs[k].status = "success"
          /\ jobs[k].finished_at = Empty

\* C5: every job that is created and enqueued eventually reaches a terminal
\* status, the work function terminating and the process running on.
C5_EventuallyTerminal ==
    \A j \in 1..MaxJobs :
        (j \in DOMAIN jobs) ~> (j \in DOMAIN jobs /\ jobs[j].status \in Terminal)

\* write statements in the body of a callable
Writes(kind) ==
    Cardinality({i \in DOMAIN Body(kind) : Body(kind)[i].op = "write"})

\* C6: when the work function returns normally, the worker first commits the
\* writes the work function made and then leaves the job with status
\* success, percent 100 and result_json the returned map (the empty map when
\* the return value is not a map).
C6_SuccessAfterReturn ==
    [][\A w \in Threads :
          (workers[w].pc = "mark_success" /\ workers'[w].pc # "mark_success")
          => LET j == workers[w].job
                 ret == Op(w).value
             IN  /\ committed[j] = Writes(workers[w].kind)
                 /\ jobs'[j].status = "success"
                 /\ jobs'[j].percent = 100
                 /\ jobs'[j].result_json =
                       (IF ret = "dict_summary"
                        THEN "{\"redirect_url\": \"/tapes/1\"}" ELSE "{}")]_vars

\* thread w is in the except clause for an exception the work function raised
\* (not one raised by the worker's own update_job calls)
WorkFnRaised(w) ==
    /\ workers[w].pc = "mark_failed"
    /\ workers[w].error # ErrorText(LockedMessage)

\* C7: when the work function raises, the worker rolls back the uncommitted
\* writes and leaves the job with status failed and a non-empty error_text;
\* result_json is not written and percent is not set to 100.
C7_FailedAfterRaise ==
    [][\A w \in Threads :
          (WorkFnRaised(w) /\ workers'[w].pc # "mark_failed")
          => LET j == workers[w].job
             IN  /\ committed'[j] = 0
                 /\ lock # WorkerLock(w)
                 /\ jobs'[j].status = "failed"
                 /\ jobs'[j].error_text # Empty
                 /\ jobs'[j].result_json = jobs[j].result_json
                 /\ jobs'[j].percent = jobs[j].percent]_vars

\* C8: the worker hands the work function a progress callback: the call of a
\* work function that takes (conn, progress) enters its body, whose reports
\* are then written to the job row while it is running.
C8_ProgressCallback ==
    [][\A w \in Threads :
          (workers[w].pc = "call" /\ workers'[w] # workers[w])
          => workers'[w].pc = "in_work"]_vars

C10_CancelOnlyActive ==
    [][CancelWrite =>
          \A j \in DOMAIN jobs :
              jobs'[j] # jobs[j] => jobs[j].status \in {"queued", "running"}]_vars

\* C11: canceling a queued or running job does not stop its work: the cancel
\* request changes nothing but the job row, and whatever the row shows the
\* worker still takes the job from the queue and has a next step until it is
\* through with it, so the work function's writes are still committed under
\* a job shown as canceled.
C11_CancelDoesNotStopWork ==
    /\ [][CancelWrite => UNCHANGED <<queue, workers, lock, committed>>]_vars
    /\ [](\A w \in Threads :
             (workers[w].pc # "idle" \/ queue # << >>) => ENABLED WorkerStep(w))

\* C11's case: a job canceled before its work function reported or wrote has
\* since had its progress report stored and its write committed.
C11_Witness ==
    \E j \in DOMAIN jobs :
        /\ jobs[j].finished_at = Now("canceled")
        /\ jobs[j].current_step = "Copy files"
        /\ committed[j] = 1

\* C12: in every reachable state a job's result_json is non-empty only if
\* its status is success, and its error_text is non-empty only if its status
\* is failed, canceled or stale.
C12_ResultAndErrorByStatus ==
    \A j \in DOMAIN jobs :
        /\ jobs[j].result_json # Empty => jobs[j].status = "success"
        /\ jobs[j].error_text # Empty
              => jobs[j].status \in {"failed", "canceled", "stale"}

\* C15: resolve_conflict_path returns directory/filename when that name is
\* free, and otherwise stem_k.ext for the smallest k >= 1 whose name is free
\* (clip.mp4 and clip_1.mp4 present gives clip_2.mp4); the name returned is
\* not in the directory at the time of the call.
C15_SmallestFreeName ==
    candidate # << >> =>
        /\ candidate \notin directory
        /\ filename \notin directory => candidate = filename
        /\ filename \in directory =>
              \E k \in 1..(MaxFiles + 1) :
                  /\ candidate = stem(filename) \o <<"_">> \o str(k) \o suffix(filename)
                  /\ stem(filename) \o suffix(filename) = filename
                  /\ \A i \in 1..(k - 1) :
                        stem(filename) \o <<"_">> \o str(i) \o suffix(filename)
                            \in directory
        /\ (filename = clip_mp4 /\ {clip_mp4, clip_1_mp4} \subseteq directory
               /\ clip_2_mp4 \notin directory) => candidate = clip_2_mp4

\* C15's case: with clip.mp4, clip_1.mp4 and clip_3.mp4 present the call
\* for clip.mp4 has returned clip_2.mp4.
C15_Witness ==
    /\ filename = clip_mp4
    /\ {clip_mp4, clip_1_mp4, clip_3_mp4} \subseteq directory
    /\ candidate = clip_2_mp4

\* the tapes whose source file holds the content of the inbox file `name`
\* and whose ingest went through to its last commit
IngestedFrom(name) ==
    { t \in DOMAIN tapes :
        /\ Inbox[tapes[t].source_label] = Inbox[name]
        /\ tapes[t].backup_status # "NULL" }

\* C13: ingesting the same file content a second time, under the same or a
\* different file name, after the first ingest completed, returns
\* already_ingested with the first tape's id and creates no tape row, review
\* item or raw copy, whatever the first ingest's re-hash of its copy gave.
C13_SecondIngestSkipped ==
    [][\A c \in Callers, name \in DOMAIN Inbox :
          (/\ IngestLookup(c, name)
           /\ is_mp4(name)
           /\ \A d \in Callers : callers[d].pc = "idle"
           /\ IngestedFrom(name) # {})
          => /\ callers'[c].pc = "idle"
             /\ callers'[c].result.status = "already_ingested"
             /\ callers'[c].result.tape_id = FirstOf(IngestedFrom(name))
             /\ UNCHANGED <<tapes, review_items, raw_dir>>]_vars

\* C14: in every reachable state no two tape rows share a content digest,
\* also when ingests of files of the same content interleave.
C14_DigestsUnique ==
    \A t, u \in DOMAIN tapes : t # u => tapes[t].sha256 # tapes[u].sha256

\* C16: whatever the backup attempt meets, it returns a failure tuple and
\* does not raise, ingest_inbox_file goes on to return status ingested, and
\* the tape row committed before the attempt stays committed.
C16_BackupNeverFailsIngest ==
    [][\A c \in Callers :
          (callers[c].pc \in {"backup", "record"} /\ callers'[c] # callers[c])
          => /\ callers'[c].result.status \in {"none", "ingested"}
             /\ callers'[c].pc = "idle" => callers'[c].result.status = "ingested"
             /\ callers[c].tape_id \in DOMAIN tapes'
             /\ tapes'[callers[c].tape_id].sha256 = tapes[callers[c].tape_id].sha256]_vars

\* the open needs_backup items of tape t
OpenBackupItems(items, t) ==
    { i \in DOMAIN items :
        /\ items[i].type = "needs_backup"
        /\ items[i].tape_id = t
        /\ items[i].status = "open" }

C18_SkipOrForce ==
    [][\A r \in Callers :
          (/\ runners[r].pc = "export"
           /\ runners[r].index <= Len(runners[r].rows)
           /\ runners'[r] # runners[r]
           /\ outputs[<<runners[r].tape, runners[r].index>>] > 0)
          => IF ~runners[r].force
             THEN /\ clips' = clips
                  /\ outputs' = outputs
                  /\ runners'[r].pc = "export"
                        => /\ runners'[r].skipped_count = runners[r].skipped_count + 1
                           /\ runners'[r].exported_count = runners[r].exported_count
                           /\ runners'[r].failures = runners[r].failures
             ELSE /\ clips' = clips + 1
                  /\ runners'[r].skipped_count = runners[r].skipped_count
                  /\ runners'[r].exported_count > runners[r].exported_count
                        => outputs'[<<runners[r].tape, runners[r].index>>]
                              = outputs[<<runners[r].tape, runners[r].index>>] + 1]_vars

\* C18's case: both files of tape 1 were on disk; an export without force
\* has skipped them (the row of segment 2 is exported with no run of the clip
\* tool on it), and an export with force has since run the tool on segment 1
\* and written its file a second time.
C18_Witness ==
    \E r \in Callers :
        /\ runners[r].pc = "export" /\ runners[r].force /\ runners[r].tape = 1
        /\ runners[r].index = 2 /\ runners[r].exported_count = 1
        /\ clips = 1
        /\ outputs[<<1, 1>>] = 2 /\ outputs[<<1, 2>>] = 1
        /\ segments[1][2].export_status = "exported"

\* the open items of a type of tape t
OpenItems(items, type, t) ==
    { i \in DOMAIN items :
        items[i].type = type /\ items[i].tape_id = t /\ items[i].status = "open" }

\* C19: when an export run completes, the tape has exactly one open
\* needs_export_review item, the one this run opened with its failed
\* segments, if a segment failed, and no open needs_export_review item if
\* none failed.
C19_ExportReviewItem ==
    [][\A r \in Callers :
          (/\ runners[r].pc = "export"
           /\ runners[r].index > Len(runners[r].rows)
           /\ runners'[r].pc = "idle")
          => LET open == OpenItems(review_items', "needs_export_review", runners[r].tape)
             IN IF runners[r].failures # << >>
                THEN /\ open = {Len(review_items')}
                     /\ Len(review_items') = Len(review_items) + 1
                     /\ review_items'[Len(review_items')].payload.failures
                           = runners[r].failures
                ELSE open = {}]_vars

\* C19's case: an export run with a failed segment has superseded the item
\* of an earlier run: the earlier item is resolved, the later one open.
C19_Witness ==
    \E i, k \in DOMAIN review_items :
        /\ i < k
        /\ review_items[i].type = "needs_export_review"
        /\ review_items[i].status = "resolved"
        /\ review_items[k].type = "needs_export_review"
        /\ review_items[k].tape_id = review_items[i].tape_id
        /\ review_items[k].status = "open"
        /\ review_items[k].payload.failures # << >>

\* C20: after any sequence of process-media, accept, ignore and export
\* requests each tape has at most one open needs_split_review item and at
\* most one open needs_export_review item.
C20_OneOpenItemPerType ==
    \A t \in Tapes, type \in {"needs_split_review", "needs_export_review"} :
        Cardinality(OpenItems(review_items, type, t)) <= 1

\* C20's case: process-media has run twice on a tape with suggestions found
\* both times: the first needs_split_review item is resolved, the second open.
C20_Witness ==
    \E i, k \in DOMAIN review_items :
        /\ i < k
        /\ review_items[i].type = "needs_split_review"
        /\ review_items[i].status = "resolved"
        /\ review_items[k].type = "needs_split_review"
        /\ review_items[k].tape_id = review_items[i].tape_id
        /\ review_items[k].status = "open"
        /\ open_count(review_items[k].tape_id) > 0

\* the lengths of a list of segments, in seconds
Lengths(segs) == [i \in 1..Len(segs) |-> segs[i].end_seconds - segs[i].start_seconds]

\* the segments built for the call in hand, before the merge pass
Built == build_segments(parse_pts_times(scene.cut_points), scene.duration)

\* C21 (as amended): the merge pass applied to contiguous segments of lengths
\* 40, 120, 30 and 200 seconds yields exactly two segments, of lengths 190
\* and 200, and scene detection returns that list.
C21_MergeExample ==
    (scene.returned /\ scene.tool = "ok" /\ scene.duration > 0
        /\ Lengths(Built) = <<40, 120, 30, 200>>)
        => Lengths(scene.suggested) = <<190, 200>>

C21_Witness ==
    /\ scene.returned
    /\ scene.tool = "ok"
    /\ scene.duration > 0
    /\ Lengths(Built) = <<40, 120, 30, 200>>
    /\ Len(scene.suggested) = 2

\* C21 as stated: the same segments merge to lengths 160 and 230.
C21_MergeExampleForward ==
    (scene.returned /\ scene.tool = "ok" /\ scene.duration > 0
        /\ Lengths(Built) = <<40, 120, 30, 200>>)
        => Lengths(scene.suggested) = <<160, 230>>

\* C28: with the tool available, a known duration and a successful run, scene
\* detection builds the segments from all cut points, a single cut point
\* included, and returns the merged list exactly when at least two segments
\* remain after merging, and an empty list otherwise.
C28_SegmentsFromAllCuts ==
    (scene.returned /\ scene.tool = "ok" /\ scene.duration > 0)
        => LET merged == merge_short_segments(Built)
           IN  scene.suggested = IF Len(merged) >= 2 THEN merged ELSE << >>

\* C29: whenever scene detection returns a non-empty list, every returned
\* segment is at least 90 seconds long.
C29_NoShortSegment ==
    scene.returned =>
        \A i \in 1..Len(scene.suggested) : Lengths(scene.suggested)[i] >= 90

C29_Witness ==
    /\ scene.returned
    /\ scene.suggested # << >>
    /\ Len(scene.suggested) < Len(Built)
    /\ \E i \in 1..Len(Built) : Lengths(Built)[i] < 90

\* C30: no two ingest operations ever copy into the same raw-storage
\* destination path: a copy never writes to a path where an earlier ingest
\* has placed a file.
C30_NoSharedDestination ==
    [][\A c \in Callers :
          (callers[c].pc = "copy" /\ callers'[c].pc = "write_tape")
              => callers[c].raw_destination \notin DOMAIN raw_dir]_vars

\* the place of a status in the order New, Ingested, Mastered, Reviewed, Final
Rank(status) == CHOOSE i \in DOMAIN STATUS_OPTIONS : STATUS_OPTIONS[i] = status

\* C22: a tape's status never moves backward in the order New, Ingested,
\* Mastered, Reviewed, Final, under any sequence of ingests, with or without
\* a tape id, and accept-suggestions operations.
C22_StatusNeverBackward ==
    [][\A t \in DOMAIN tapes : Rank(tapes'[t].status) >= Rank(tapes[t].status)]_vars

\* thread c returns from ingest_inbox_file with an error result in this step
ErrorReturn(c) ==
    /\ callers'[c].pc = "idle"
    /\ callers'[c].result.status = "error"
    /\ callers[c].pc # "idle" \/ ingests' # ingests

\* C23: when ingest_inbox_file returns an error result (file missing, wrong
\* extension, target tape not found or copy failure), the call has inserted
\* or updated no tape row and created no review item: it returns before its
\* first write.
C23_ErrorBeforeAnyWrite ==
    [][\A c \in Callers :
          ErrorReturn(c)
          => /\ UNCHANGED <<tapes, review_items>>
             /\ callers[c].tape_id = 0
             /\ callers[c].pc \in {"idle", "copy"}]_vars

C23_Witness ==
    \E c \in Callers :
        /\ callers[c].result.status = "error"
        /\ callers[c].result.message = "Copy failed"
        /\ tapes # << >>
        /\ review_items # << >>

C27_BoundedRetry ==
    /\ retry.pc = "loop" => retry.commits = 0 /\ jobs = <<retry.before>>
    /\ (retry.pc = "returned" /\ DOMAIN retry.kw # {})
          => /\ retry.commits = 1
             /\ retry.attempt < 50
             /\ jobs = <<update_job_row(retry.before, retry.kw)>>
    /\ retry.pc = "raised" => retry.commits = 0 /\ jobs = <<retry.before>>
    /\ retry.exception = "RuntimeError"
          <=> (retry.met = "database is locked" /\ retry.pc = "raised")
    /\ retry.exception = "RuntimeError" => retry.attempt = 49
    /\ retry.met = "disk I/O error"
          => retry.pc = "raised" /\ retry.exception = "OperationalError"

C27_Witness ==
    /\ retry.pc = "raised"
    /\ retry.exception = "RuntimeError"
    /\ retry.attempt = 49
    /\ jobs = <<retry.before>>

\* C24: a single-file ingest job started for a file that does not exist or
\* does not have the accepted extension does not end in status failed.
C24_NoJobFailure ==
    (batch.handler = "ingest_start_file" /\ batch.files[1] \in {"missing", "not_mp4"})
        => \A j \in DOMAIN jobs : jobs[j].status # "failed"

\* the new files of the batch whose ingest returns an error
Failing == {i \in DOMAIN batch.files : ingest_result(batch.files[i]).status = "error"}

C40_ContiguousPartition ==
    (scene.returned /\ scene.suggested # << >>)
        => /\ scene.suggested[1].start_seconds = 0
           /\ scene.suggested[Len(scene.suggested)].end_seconds = scene.duration
           /\ \A i \in 2..Len(scene.suggested) :
                 scene.suggested[i].start_seconds = scene.suggested[i - 1].end_seconds

\* C32: re-running media processing for a tape never deletes a suggestion
\* row: every suggestion that was open becomes ignored, and afterwards the
\* tape's open suggestions are exactly the ones the latest run produced,
\* none if it produced none.
C32_SupersededNotDeleted ==
    [][\A r \in Callers :
          (runners[r].pc = "process" /\ runners'[r].pc = "idle")
          => LET t == runners[r].tape
                 old == suggestions[t]
                 new == suggestions'[t]
             IN  /\ Len(new) >= Len(old)
                 /\ Len(new) - Len(old) \in {0, 2}
                 /\ \A i \in DOMAIN old :
                       /\ old[i].status = "open" => new[i].status = "ignored"
                       /\ old[i].status # "open" => new[i] = old[i]
                 /\ \A i \in DOMAIN new :
                       new[i].status = "open" <=> i > Len(old)
                 /\ \A u \in Tapes \ {t} : suggestions'[u] = suggestions[u]]_vars

C32_Witness ==
    \E t \in Tapes :
        /\ Len(suggestions[t]) = 4
        /\ suggestions[t][1] = [status |-> "ignored", notes |-> "superseded"]
        /\ suggestions[t][2] = [status |-> "ignored", notes |-> "superseded"]
        /\ suggestions[t][3].status = "open"
        /\ suggestions[t][4].status = "open"

\* C31: a backup retry resolves the needs_backup review item and sets the
\* tape's backup_status to backed_up exactly when the retried backup
\* succeeds; when the retry fails, or the item cannot be retried, the item
\* and the tape are unchanged.
C31_RetryRecordsBackup ==
    [][\A c \in Callers :
          /\ (callers[c].pc = "retried" /\ callers'[c].pc = "idle")
             => IF callers[c].success
                THEN /\ tapes'[callers[c].tape_id].backup_status = "backed_up"
                     /\ review_items'[callers[c].item].status = "resolved"
                ELSE UNCHANGED <<tapes, review_items>>
          /\ (callers[c].pc = "idle" /\ callers'[c].result.status = "error"
                /\ callers'[c].result # callers[c].result)
             => UNCHANGED <<tapes, review_items>>]_vars

\* the open needs_backup review items of tape t
OpenNeedsBackup(t) ==
    {i \in DOMAIN review_items :
        /\ review_items[i].type = "needs_backup"
        /\ review_items[i].tape_id = t
        /\ review_items[i].status = "open"}

\* C38: in every reachable state a tape's backup_status is needs_backup if
\* and only if the tape has at least one open needs_backup review item, and
\* a tape with backup_status backed_up has none, across ingest (repeated
\* attachment included), backup retry and manual resolve of review items.
C38_BackupStatusMatchesItems ==
    \A t \in DOMAIN tapes :
        /\ tapes[t].backup_status = "needs_backup" <=> OpenNeedsBackup(t) # {}
        /\ tapes[t].backup_status = "backed_up" => OpenNeedsBackup(t) = {}

\* C39: every file an ingest copied into raw storage ends up referenced by
\* the raw_path of exactly one tape row, also when the ingest raises after
\* the copy or a file is attached to a tape that already had raw media.
C39_RawCopyReferencedOnce ==
    (\A c \in Callers : callers[c].pc \in {"idle", "retry", "retried"})
        => \A n \in DOMAIN raw_dir :
              Cardinality({t \in DOMAIN tapes : tapes[t].raw_path = n}) = 1

\* C33: the stale sweep never marks as stale a job whose work function is
\* still executing in the current process, so a job in status stale is never
\* afterwards rewritten to success or failed by a worker.
C33_SweepSparesLiveJobs ==
    [][\A j \in DOMAIN jobs :
          /\ (jobs[j].status # "stale" /\ jobs'[j].status = "stale")
                => \A w \in DOMAIN workers :
                      ~(workers[w].pc # "idle" /\ workers[w].job = j)
          /\ jobs[j].status = "stale"
                => jobs'[j].status \notin {"success", "failed"}]_vars

\* job j is known to the executor: in its queue or with one of its threads
Submitted(j) ==
    \/ \E i \in DOMAIN queue : queue[i].job = j
    \/ \E w \in Threads : workers[w].pc # "idle" /\ workers[w].job = j

\* C34: after a process restart no job stays in a non-terminal status
\* forever: every job that was queued when the process stopped is eventually
\* executed or moved to a terminal status.
C34_QueuedJobsSurviveRestart ==
    \A j \in 1..MaxJobs :
        (j \in DOMAIN jobs /\ jobs[j].status = "queued" /\ ~Submitted(j))
            ~> (j \in DOMAIN jobs /\ jobs[j].status # "queued")

C36_FailedNeedsSuccessfulClip ==
    [][\A r \in Callers :
          (/\ runners[r].pc = "export"
           /\ runners[r].index \in DOMAIN runners[r].rows
           /\ runners[r].rows[runners[r].index].export_status = "failed"
           /\ runners'[r].pc = "export"
           /\ runners'[r].rows[runners[r].index].export_status = "exported")
              => outputs'[output_path(r)] > outputs[output_path(r)]]_vars

====
